---- MODULE Spec2Model ----
(***************************************************************************)
(* Model of core/pkg/telemetry/metrics.go: the MetricsRecorder facade over *)
(* an OpenTelemetry meter provider.                                        *)
(*                                                                         *)
(* The measurement backend is represented by what the facade needs of it:  *)
(*   - a provider holds the registered views and hands out one meter;      *)
(*   - creating an instrument may fail; the error is discarded by the      *)
(*     facade and the handle it keeps then records nothing;                *)
(*   - Add / Record on a handle is one atomic update of the aggregate kept *)
(*     for the attribute set of the call.                                  *)
(* The context argument is handed through to the backend and plays no part *)
(* in the facade, so it is left out.                                       *)
(*                                                                         *)
(* Numbers: response sizes are whole bytes.  A time.Duration is a whole    *)
(* number of nanoseconds, and a value of the duration histogram is a       *)
(* fixed-point number of seconds with three decimals, so 1500 stands for   *)
(* 1.5 s and the boundary 0.005 s is written 5.                            *)
(***************************************************************************)
EXTENDS Integers, Sequences, FiniteSets, TLC

(***************************************************************************)
(* Bounds of the model.                                                    *)
(***************************************************************************)
\* number of recording calls started in one behaviour
MaxCalls == 2

(***************************************************************************)
(* Program constants (metrics.go:19-27 and the instrument names of         *)
(* NewOTelRecorder).                                                       *)
(***************************************************************************)
requestDurationName == "http_request_duration_seconds"
responseSizeName == "http_response_size_bytes"
FlagdProviderName == "flagd"
FeatureFlagReasonKeyName == "feature_flag.reason"
ExceptionTypeKeyName == "exception.type"
inflightName == "http_requests_inflight"
impressionsName == "impressions"
reasonsName == "reasons"

\* the five fields of MetricsRecorder
InstrumentKeys ==
  {"httpRequestDurHistogram", "httpResponseSizeHistogram",
   "httpRequestsInflight", "impressions", "reasons"}

HistogramKeys == {"httpRequestDurHistogram", "httpResponseSizeHistogram"}

\* the name each field's instrument is created with
InstrumentName(k) ==
  CASE k = "httpRequestDurHistogram" -> requestDurationName
    [] k = "httpResponseSizeHistogram" -> responseSizeName
    [] k = "httpRequestsInflight" -> inflightName
    [] k = "impressions" -> impressionsName
    [] k = "reasons" -> reasonsName

(***************************************************************************)
(* Inputs.                                                                 *)
(***************************************************************************)
Recorders == {"rec1", "rec2"}
Callers == {"g1", "g2"}
ServiceNames == {"svcA", requestDurationName}

\* error values: the nil error and errors with a message
NilErr == [isNil |-> TRUE, msg |-> ""]
Errs == {[isNil |-> FALSE, msg |-> "FLAG_NOT_FOUND"]}
ErrInputs == {NilErr} \cup Errs
\* err.Error()
ErrorString(err) == err.msg

ReasonInputs == {"STATIC", "ERROR"}
VariantInputs == {"on"}
KeyInputs == {"flagA"}
\* time.Duration values, in nanoseconds (3 ms and 1.5 s)
DurationInputs == {3000000, 1500000000}
SizeInputs == {50, 2048}

(***************************************************************************)
(* Attributes.  An attribute list is a sequence of key/value pairs; the    *)
(* backend aggregates per attribute set, where a later pair of a list      *)
(* replaces an earlier one with the same key.                              *)
(***************************************************************************)
KV(k, v) == [key |-> k, value |-> v]

HTTPAttributes(svcName, url, method, code) ==
  << KV("service.name", svcName), KV("http.url", url),
     KV("http.method", method), KV("http.status_code", code) >>

FeatureFlagReason(val) == KV(FeatureFlagReasonKeyName, val)

ExceptionType(val) == KV(ExceptionTypeKeyName, val)

FeatureFlagProviderName(val) == KV("feature_flag.provider_name", val)

SemConvFeatureFlagAttributes(key, variant) ==
  << KV("feature_flag.key", key), KV("feature_flag.variant", variant) >>

RECURSIVE NewSet(_)
NewSet(attrs) ==
  IF attrs = << >> THEN << >>
  ELSE LET n == Len(attrs)
           rest == NewSet(SubSeq(attrs, 1, n - 1))
       IN  (attrs[n].key :> attrs[n].value) @@ rest

\* attribute lists the HTTP middleware passes
AttrInputs ==
  { HTTPAttributes("svc", "/x", "GET", "200"),
    HTTPAttributes("svc", "/x", "GET", "500") }

AttrSetInputs == { NewSet(a) : a \in AttrInputs }

(***************************************************************************)
(* Bucket boundaries.                                                      *)
(***************************************************************************)
\* prometheus.DefBuckets, in thousandths of a second
DefBuckets == << 5, 10, 25, 50, 100, 250, 500, 1000, 2500, 5000, 10000 >>

\* mutant: the buckets grow by adding the factor, as LinearBuckets does
RECURSIVE ExponentialBucketsLinear(_, _, _)
ExponentialBucketsLinear(start, factor, count) ==
  IF count < 1 THEN << >>
  ELSE << start >> \o ExponentialBucketsLinear(start + factor, factor, count - 1)

\* prometheus.ExponentialBuckets(start, factor, count)
RECURSIVE ExponentialBuckets(_, _, _)
ExponentialBuckets(start, factor, count) ==
  IF count < 1 THEN << >>
  ELSE << start >> \o ExponentialBuckets(start * factor, factor, count - 1)

\* the boundaries of the default aggregation of a histogram
DefaultBoundaries ==
  << 0, 5, 10, 25, 50, 75, 100, 250, 500, 750, 1000, 2500, 5000, 7500, 10000 >>

\* the default boundaries in the unit of the values the field's histogram takes
DefaultBoundariesOf(k) ==
  IF k = "httpRequestDurHistogram"
  THEN [i \in 1..Len(DefaultBoundaries) |-> DefaultBoundaries[i] * 1000]
  ELSE DefaultBoundaries

(***************************************************************************)
(* Views and instrument creation.                                          *)
(***************************************************************************)
getDurationView(svcName, viewName, bucket) ==
  [name |-> viewName, scope |-> svcName, boundaries |-> bucket]

\* a view selects the instruments with its name and its scope
ViewMatches(view, name, scope) == view.name = name /\ view.scope = scope

\* the boundaries of the stream of a histogram: those of the first matching
\* view, the default aggregation when no view matches
StreamBoundaries(views, k, scope) ==
  LET hits == { i \in 1..Len(views) : ViewMatches(views[i], InstrumentName(k), scope) }
  IN  IF hits = {} THEN DefaultBoundariesOf(k)
      ELSE views[CHOOSE i \in hits : \A j \in hits : i <= j].boundaries

NoHandle == [name |-> "", scope |-> "", ok |-> FALSE, boundaries |-> << >>]

\* meter.Float64Histogram / Int64UpDownCounter / Int64Counter: the handle the
\* facade keeps; failed tells whether the creation call returned an error
CreateInstrument(views, scope, k, failed) ==
  [name |-> InstrumentName(k), scope |-> scope, ok |-> ~failed,
   boundaries |-> IF k \in HistogramKeys THEN StreamBoundaries(views, k, scope)
                  ELSE << >>]

(***************************************************************************)
(* Aggregation.                                                            *)
(***************************************************************************)
\* the accumulated value of a counter for an attribute set
Val(agg, set) == IF set \in DOMAIN agg THEN agg[set] ELSE 0

\* the sum of a counter over its attribute sets
RECURSIVE SumOver(_, _)
SumOver(agg, sets) ==
  IF sets = {} THEN 0
  ELSE LET s == CHOOSE x \in sets : TRUE
       IN  agg[s] + SumOver(agg, sets \ {s})

Total(agg) == SumOver(agg, DOMAIN agg)

\* Add(ctx, incr, attrs...) on a counter or up/down counter
Add(agg, handle, incr, attrs) ==
  LET set == NewSet(attrs)
  IN  IF ~handle.ok THEN agg
      ELSE IF set \in DOMAIN agg THEN [agg EXCEPT ![set] = @ + incr]
      ELSE (set :> incr) @@ agg

\* the bucket a value falls into: the first whose upper boundary is >= value
BucketIndex(boundaries, value) ==
  1 + Cardinality({ i \in 1..Len(boundaries) : boundaries[i] < value })

\* Record(ctx, value, attrs...) on a histogram
Record(agg, handle, value, attrs) ==
  LET set == NewSet(attrs)
      idx == BucketIndex(handle.boundaries, value)
      zero == [i \in 1..(Len(handle.boundaries) + 1) |-> 0]
      old == IF set \in DOMAIN agg THEN agg[set] ELSE zero
  IN  IF ~handle.ok THEN agg
      ELSE (set :> [old EXCEPT ![idx] = @ + 1]) @@ agg

(***************************************************************************)
(* State.                                                                  *)
(***************************************************************************)
VARIABLES
  provider,   \* per recorder: the meter provider built by NewOTelRecorder
  recorder,   \* per recorder: the five instrument handles of MetricsRecorder
  data,       \* per recorder and field: the aggregate the backend accumulates
  pc,         \* per caller: "idle", or "Reasons" inside RecordEvaluation
  call,       \* per caller: the arguments of the RecordEvaluation in progress
  hist,       \* per recorder: the arguments it was built with and how many
              \* calls of each kind have been made on it
  last,       \* the operation that took the last step
  ncalls      \* recording calls started so far

vars == << provider, recorder, data, pc, call, hist, last, ncalls >>

NoCall == [rec |-> "", err |-> NilErr, reason |-> "", variant |-> "", key |-> ""]

Step(op, r) == [op |-> op, rec |-> r, attrs |-> << >>, pre |-> << >>]

Init ==
  /\ provider = [r \in Recorders |-> [built |-> FALSE, scope |-> "", views |-> << >>]]
  /\ recorder = [r \in Recorders |-> [k \in InstrumentKeys |-> NoHandle]]
  /\ data = [r \in Recorders |-> [k \in InstrumentKeys |-> << >>]]
  /\ pc = [c \in Callers |-> "idle"]
  /\ call = [c \in Callers |-> NoCall]
  /\ hist = [r \in Recorders |->
              [serviceName |-> "", failed |-> {},
               starts |-> [s \in AttrSetInputs |-> 0],
               ends |-> [s \in AttrSetInputs |-> 0],
               evalDone |-> 0, evalNil |-> 0]]
  /\ last = Step("none", "")
  /\ ncalls = 0

(***************************************************************************)
(* NewOTelRecorder.                                                        *)
(***************************************************************************)
\* the two views handed to metric.NewMeterProvider
RecorderViews(serviceName) ==
  << getDurationView(requestDurationName, serviceName, DefBuckets),
     getDurationView(responseSizeName, serviceName, ExponentialBuckets(100, 10, 8)) >>

\* mutant: the meter is derived under the provider name, not the service name
MeterScopeFixed(serviceName) == FlagdProviderName

\* the scope of provider.Meter(serviceName)
MeterScope(serviceName) == serviceName

\* mutant: one failing creation call leaves the recorder without any handle
RecorderHandlesAllOrNothing(serviceName, failed) ==
  [k \in InstrumentKeys |->
     IF failed = {}
     THEN CreateInstrument(RecorderViews(serviceName), MeterScope(serviceName), k, FALSE)
     ELSE NoHandle]

\* the five handles of the returned recorder; failed is the set of fields whose
\* creation call returned an error
RecorderHandles(serviceName, failed) ==
  [k \in InstrumentKeys |->
     CreateInstrument(RecorderViews(serviceName), MeterScope(serviceName), k,
                      k \in failed)]

NewOTelRecorder(r, serviceName, failed) ==
  /\ ~provider[r].built
  /\ provider' = [provider EXCEPT ![r] =
                    [built |-> TRUE, scope |-> MeterScope(serviceName),
                     views |-> RecorderViews(serviceName)]]
  /\ recorder' = [recorder EXCEPT ![r] = RecorderHandles(serviceName, failed)]
  /\ hist' = [hist EXCEPT ![r].serviceName = serviceName, ![r].failed = failed]
  /\ last' = Step("NewOTelRecorder", r)
  /\ UNCHANGED << data, pc, call, ncalls >>

(***************************************************************************)
(* Recording operations.  Each is called by an idle caller on a recorder   *)
(* that has been built.                                                    *)
(***************************************************************************)
CanCall(c, r) == pc[c] = "idle" /\ provider[r].built /\ ncalls < MaxCalls

\* duration.Seconds(), in thousandths of a second
Seconds(duration) == duration \div 1000000

HTTPRequestDuration(c, r, duration, attrs) ==
  /\ CanCall(c, r)
  /\ data' = [data EXCEPT ![r]["httpRequestDurHistogram"] =
                Record(@, recorder[r]["httpRequestDurHistogram"], Seconds(duration), attrs)]
  /\ last' = Step("HTTPRequestDuration", r)
  /\ ncalls' = ncalls + 1
  /\ UNCHANGED << provider, recorder, pc, call, hist >>

\* mutant: the size is recorded into the duration histogram
HTTPResponseSizeOtherField(c, r, sizeBytes, attrs) ==
  /\ CanCall(c, r)
  /\ data' = [data EXCEPT ![r]["httpRequestDurHistogram"] =
                Record(@, recorder[r]["httpRequestDurHistogram"], sizeBytes, attrs)]
  /\ last' = Step("HTTPResponseSize", r)
  /\ ncalls' = ncalls + 1
  /\ UNCHANGED << provider, recorder, pc, call, hist >>

HTTPResponseSize(c, r, sizeBytes, attrs) ==
  /\ CanCall(c, r)
  /\ data' = [data EXCEPT ![r]["httpResponseSizeHistogram"] =
                Record(@, recorder[r]["httpResponseSizeHistogram"], sizeBytes, attrs)]
  /\ last' = Step("HTTPResponseSize", r)
  /\ ncalls' = ncalls + 1
  /\ UNCHANGED << provider, recorder, pc, call, hist >>

\* the in-flight aggregate after InFlightRequestStart / InFlightRequestEnd
InFlightStartAdd(agg, handle, attrs) == Add(agg, handle, 1, attrs)

\* mutant: End adds 1 as Start does
InFlightEndAddUp(agg, handle, attrs) == Add(agg, handle, 1, attrs)

\* mutant: End does not take the value below zero
InFlightEndAddClamped(agg, handle, attrs) ==
  IF Val(agg, NewSet(attrs)) > 0 THEN Add(agg, handle, -1, attrs) ELSE agg

InFlightEndAdd(agg, handle, attrs) == Add(agg, handle, -1, attrs)

InFlightRequestStart(c, r, attrs) ==
  /\ CanCall(c, r)
  /\ data' = [data EXCEPT ![r]["httpRequestsInflight"] =
                InFlightStartAdd(@, recorder[r]["httpRequestsInflight"], attrs)]
  /\ hist' = [hist EXCEPT ![r].starts[NewSet(attrs)] = @ + 1]
  /\ last' = [op |-> "InFlightRequestStart", rec |-> r, attrs |-> attrs,
              pre |-> data[r]["httpRequestsInflight"]]
  /\ ncalls' = ncalls + 1
  /\ UNCHANGED << provider, recorder, pc, call >>

InFlightRequestEnd(c, r, attrs) ==
  /\ CanCall(c, r)
  /\ data' = [data EXCEPT ![r]["httpRequestsInflight"] =
                InFlightEndAdd(@, recorder[r]["httpRequestsInflight"], attrs)]
  /\ hist' = [hist EXCEPT ![r].ends[NewSet(attrs)] = @ + 1]
  /\ last' = [op |-> "InFlightRequestEnd", rec |-> r, attrs |-> attrs,
              pre |-> << >>]
  /\ ncalls' = ncalls + 1
  /\ UNCHANGED << provider, recorder, pc, call >>

\* the attribute lists of Impressions and Reasons
ImpressionsAttrs(reason, variant, key) ==
  Append(SemConvFeatureFlagAttributes(key, variant), FeatureFlagReason(reason))

\* mutant: the exception type is appended whether or not there is an error
ReasonsAttrsAlwaysException(reason, err) ==
  << FeatureFlagProviderName(FlagdProviderName), FeatureFlagReason(reason),
     ExceptionType(ErrorString(err)) >>

ReasonsAttrs(reason, err) ==
  LET attrs == << FeatureFlagProviderName(FlagdProviderName), FeatureFlagReason(reason) >>
  IN  IF ~err.isNil THEN Append(attrs, ExceptionType(ErrorString(err))) ELSE attrs

\* the recorder's aggregates after r.Impressions(...) / r.Reasons(...)
ImpressionsAdd(d, h, reason, variant, key) ==
  [d EXCEPT !["impressions"] =
     Add(@, h["impressions"], 1, ImpressionsAttrs(reason, variant, key))]

\* mutant: the reason is recorded for failed evaluations only
ReasonsAddOnError(d, h, reason, err) ==
  IF err.isNil THEN d
  ELSE [d EXCEPT !["reasons"] = Add(@, h["reasons"], 1, ReasonsAttrs(reason, err))]

ReasonsAdd(d, h, reason, err) ==
  [d EXCEPT !["reasons"] = Add(@, h["reasons"], 1, ReasonsAttrs(reason, err))]

Impressions(c, r, reason, variant, key) ==
  /\ CanCall(c, r)
  /\ data' = [data EXCEPT ![r] = ImpressionsAdd(@, recorder[r], reason, variant, key)]
  /\ last' = Step("Impressions", r)
  /\ ncalls' = ncalls + 1
  /\ UNCHANGED << provider, recorder, pc, call, hist >>

Reasons(c, r, reason, err) ==
  /\ CanCall(c, r)
  /\ data' = [data EXCEPT ![r] = ReasonsAdd(@, recorder[r], reason, err)]
  /\ last' = Step("Reasons", r)
  /\ ncalls' = ncalls + 1
  /\ UNCHANGED << provider, recorder, pc, call, hist >>

\* mutant: the impression is recorded whatever the error
RecordEvaluationEnterAlways(c, r, err, reason, variant, key) ==
  /\ CanCall(c, r)
  /\ data' = [data EXCEPT ![r] = ImpressionsAdd(@, recorder[r], reason, variant, key)]
  /\ pc' = [pc EXCEPT ![c] = "Reasons"]
  /\ call' = [call EXCEPT ![c] =
                [rec |-> r, err |-> err, reason |-> reason, variant |-> variant,
                 key |-> key]]
  /\ last' = Step("RecordEvaluation", r)
  /\ ncalls' = ncalls + 1
  /\ UNCHANGED << provider, recorder, hist >>

\* RecordEvaluation up to its call of Reasons: lines 78-80
RecordEvaluationEnter(c, r, err, reason, variant, key) ==
  /\ CanCall(c, r)
  /\ data' = [data EXCEPT ![r] =
                IF err.isNil THEN ImpressionsAdd(@, recorder[r], reason, variant, key)
                ELSE @]
  /\ pc' = [pc EXCEPT ![c] = "Reasons"]
  /\ call' = [call EXCEPT ![c] =
                [rec |-> r, err |-> err, reason |-> reason, variant |-> variant,
                 key |-> key]]
  /\ last' = Step("RecordEvaluation", r)
  /\ ncalls' = ncalls + 1
  /\ UNCHANGED << provider, recorder, hist >>

\* RecordEvaluation's call of Reasons and its return: line 81
RecordEvaluationReasons(c) ==
  /\ pc[c] = "Reasons"
  /\ LET r == call[c].rec
     IN  /\ data' = [data EXCEPT ![r] =
                       ReasonsAdd(@, recorder[r], call[c].reason, call[c].err)]
         /\ hist' = [hist EXCEPT ![r].evalDone = @ + 1,
                                 ![r].evalNil = @ + (IF call[c].err.isNil THEN 1 ELSE 0)]
         /\ last' = Step("RecordEvaluation", r)
  /\ pc' = [pc EXCEPT ![c] = "idle"]
  /\ call' = [call EXCEPT ![c] = NoCall]
  /\ UNCHANGED << provider, recorder, ncalls >>

(***************************************************************************)
(* Specifications.                                                         *)
(***************************************************************************)
Construct(recs, names, fails) ==
  \E r \in recs, s \in names, f \in fails : NewOTelRecorder(r, s, f)

RecordHTTP(callers, recs) ==
  \E c \in callers, r \in recs, a \in AttrInputs :
     \/ \E d \in DurationInputs : HTTPRequestDuration(c, r, d, a)
     \/ \E n \in SizeInputs : HTTPResponseSize(c, r, n, a)
     \/ InFlightRequestStart(c, r, a)
     \/ InFlightRequestEnd(c, r, a)

RecordDirect(callers, recs) ==
  \E c \in callers, r \in recs, reason \in ReasonInputs :
     \/ \E v \in VariantInputs, k \in KeyInputs : Impressions(c, r, reason, v, k)
     \/ \E e \in ErrInputs : Reasons(c, r, reason, e)

RecordEval(callers, recs) ==
  \/ \E c \in callers, r \in recs, e \in ErrInputs, reason \in ReasonInputs,
        v \in VariantInputs, k \in KeyInputs :
        RecordEvaluationEnter(c, r, e, reason, v, k)
  \/ \E c \in callers : RecordEvaluationReasons(c)

\* one recorder shared by two callers, every combination of failed creation
\* calls, every operation
Next ==
  \/ Construct({"rec1"}, ServiceNames, SUBSET InstrumentKeys)
  \/ RecordHTTP(Callers, {"rec1"})
  \/ RecordDirect(Callers, {"rec1"})
  \/ RecordEval(Callers, {"rec1"})

Spec == Init /\ [][Next]_vars

\* two recorders built on the same backend, each with all its creation calls
\* succeeding or all failing, used by one caller
NextTwo ==
  \/ Construct(Recorders, {"svcA", "svcB"}, {{}, InstrumentKeys})
  \/ RecordHTTP({"g1"}, Recorders)
  \/ RecordDirect({"g1"}, Recorders)
  \/ RecordEval({"g1"}, Recorders)

SpecTwo == Init /\ [][NextTwo]_vars

\* one recorder that two callers use through RecordEvaluation only
NextEval ==
  \/ Construct({"rec1"}, ServiceNames \cup {"svcB"}, SUBSET InstrumentKeys)
  \/ RecordEval(Callers, {"rec1"})

SpecEval == Init /\ [][NextEval]_vars

(***************************************************************************)
(* Properties.                                                             *)
(***************************************************************************)
Built(r) == provider[r].built

\* the counter agg with n added to the value of the attribute set
Bumped(agg, set, n) ==
  [s \in (DOMAIN agg) \cup {set} |-> Val(agg, s) + (IF s = set THEN n ELSE 0)]

\* the step by which caller c enters RecordEvaluation / returns from it
EvalEnters(c) == pc[c] = "idle" /\ pc'[c] = "Reasons"
EvalReturns(c) == pc[c] = "Reasons" /\ pc'[c] = "idle"

\* the attribute set of a reasons data point without and with an error
ReasonSet(reason) ==
  ("feature_flag.provider_name" :> "flagd") @@ ("feature_flag.reason" :> reason)
ReasonErrSet(reason, msg) == ReasonSet(reason) @@ ("exception.type" :> msg)

\* the attribute sets of the counter whose value a step changes
Changed(r, k) ==
  { s \in (DOMAIN data[r][k]) \cup (DOMAIN data'[r][k]) :
      Val(data'[r][k], s) # Val(data[r][k], s) }

\* what a RecordEvaluation with a nil error does to the two counters; the
\* parameters tell for which recorders each counter is required to move
SuccessRecordsBoth(c, impressionsMoves, reasonsMoves) ==
  /\ (EvalEnters(c) /\ call'[c].err.isNil) =>
       LET r == call'[c].rec
       IN  /\ impressionsMoves =>
                Total(data'[r]["impressions"]) = Total(data[r]["impressions"]) + 1
           /\ data'[r]["reasons"] = data[r]["reasons"]
  /\ (EvalReturns(c) /\ call[c].err.isNil) =>
       LET r == call[c].rec
       IN  /\ reasonsMoves =>
                /\ data'[r]["reasons"] =
                     Bumped(data[r]["reasons"], ReasonSet(call[c].reason), 1)
                /\ Total(data'[r]["reasons"]) = Total(data[r]["reasons"]) + 1
                /\ \A s \in Changed(r, "reasons") :
                     DOMAIN s = {"feature_flag.provider_name", "feature_flag.reason"}
           /\ data'[r]["impressions"] = data[r]["impressions"]

\* C1 as stated: every RecordEvaluation call with a nil error adds exactly 1
\* to the impressions counter and exactly 1 to the reasons counter, and the
\* reasons data point carries the provider name "flagd" and the reason only,
\* without an exception.type key.
C1_EveryRecorder ==
  [][\A c \in Callers : SuccessRecordsBoth(c, TRUE, TRUE)]_vars

\* C1 amended: the same, for the counters whose creation succeeded: a
\* RecordEvaluation call with a nil error adds exactly 1 to the impressions
\* counter if that counter was created, and exactly 1 to the reasons counter
\* if that counter was created, at the attribute set {provider name "flagd",
\* reason} without an exception.type key.
C1_SuccessRecordsBoth ==
  [][\A c \in Callers :
       SuccessRecordsBoth(c,
         /\ EvalEnters(c)
         /\ "impressions" \notin hist[call'[c].rec].failed,
         /\ EvalReturns(c)
         /\ "reasons" \notin hist[call[c].rec].failed)]_vars

C1_Witness ==
  /\ hist["rec1"].evalNil >= 1
  /\ hist["rec1"].failed = {}
  /\ Total(data["rec1"]["impressions"]) >= 1
  /\ ReasonSet("STATIC") \in DOMAIN data["rec1"]["reasons"]

\* what a RecordEvaluation with a non-nil error does to the two counters
FailureRecordsReason(c, reasonsMoves) ==
  /\ (EvalEnters(c) /\ ~call'[c].err.isNil) => data' = data
  /\ (EvalReturns(c) /\ ~call[c].err.isNil) =>
       LET r == call[c].rec
       IN  /\ reasonsMoves =>
                /\ data'[r]["reasons"] =
                     Bumped(data[r]["reasons"],
                            ReasonErrSet(call[c].reason, call[c].err.msg), 1)
                /\ Total(data'[r]["reasons"]) = Total(data[r]["reasons"]) + 1
                /\ \A s \in Changed(r, "reasons") :
                     /\ "exception.type" \in DOMAIN s
                     /\ s["exception.type"] = call[c].err.msg
           /\ data'[r]["impressions"] = data[r]["impressions"]
           /\ call'[c] = NoCall

\* C2 as stated: every RecordEvaluation call with a non-nil error adds
\* exactly 1 to the reasons counter, leaves the impressions counter alone,
\* the reasons data point carries exception.type = err.Error(), and the call
\* returns without handing the error back.
C2_EveryRecorder ==
  [][\A c \in Callers : FailureRecordsReason(c, TRUE)]_vars

\* C2 amended: the same, for a reasons counter whose creation succeeded: a
\* RecordEvaluation call with a non-nil error leaves the impressions counter
\* unchanged, returns without handing the error back and, if the reasons
\* counter was created, adds exactly 1 to it at an attribute set whose
\* exception.type equals err.Error().
C2_FailureRecordsReason ==
  [][\A c \in Callers :
       FailureRecordsReason(c,
         /\ EvalReturns(c)
         /\ "reasons" \notin hist[call[c].rec].failed)]_vars

C2_Witness ==
  /\ hist["rec1"].evalDone = 1
  /\ hist["rec1"].evalNil = 0
  /\ hist["rec1"].failed = {}
  /\ data["rec1"]["impressions"] = << >>
  /\ ReasonErrSet("ERROR", "FLAG_NOT_FOUND") \in DOMAIN data["rec1"]["reasons"]

\* C3: for every service name S given to NewOTelRecorder, the duration view
\* selects the instrument named "http_request_duration_seconds" in scope S and
\* the size view the instrument named "http_response_size_bytes" in scope S,
\* so the two histograms the recorder creates take the boundaries of their
\* views instead of the default aggregation.
C3_ViewsSelectHistograms ==
  \A r \in Recorders :
     Built(r) =>
       LET S == hist[r].serviceName
           durationView == provider[r].views[1]
           sizeView == provider[r].views[2]
       IN  /\ durationView.name = "http_request_duration_seconds"
           /\ durationView.scope = S
           /\ sizeView.name = "http_response_size_bytes"
           /\ sizeView.scope = S
           /\ recorder[r]["httpRequestDurHistogram"].boundaries = durationView.boundaries
           /\ recorder[r]["httpResponseSizeHistogram"].boundaries = sizeView.boundaries

\* C4: the boundaries configured for the response-size view are the eight
\* values 100 * 10^i, i = 0..7: strictly increasing, the first 100, each ten
\* times the one before, the last 1000000000.
C4_SizeBuckets ==
  \A r \in Recorders :
     Built(r) =>
       LET b == provider[r].views[2].boundaries
       IN  /\ b = << 100, 1000, 10000, 100000, 1000000, 10000000, 100000000,
                     1000000000 >>
           /\ Len(b) = 8
           /\ b[1] = 100
           /\ \A i \in 1..(Len(b) - 1) : b[i + 1] = 10 * b[i] /\ b[i] < b[i + 1]
           /\ b[Len(b)] = 1000000000

C4_Witness ==
  /\ Built("rec1")
  /\ hist["rec1"].serviceName = "svcA"
  /\ Len(provider["rec1"].views) = 2

InFlightIsStartsMinusEnds(covered(_)) ==
  \A r \in Recorders :
     (Built(r) /\ covered(r)) =>
        \A s \in AttrSetInputs :
           Val(data[r]["httpRequestsInflight"], s) = hist[r].starts[s] - hist[r].ends[s]

AnyRecorder(r) == TRUE
InFlightCreated(r) == "httpRequestsInflight" \notin hist[r].failed

\* C8 as stated: whatever the interleaving of the callers, the in-flight
\* value of each attribute set equals the number of InFlightRequestStart calls
\* minus the number of InFlightRequestEnd calls made with it: nothing is
\* lost, paired or clamped at zero.
C8_EveryRecorder == InFlightIsStartsMinusEnds(AnyRecorder)

\* C8 amended: the same, on a recorder whose in-flight counter was created
\* successfully: its value for each attribute set equals the number of Start
\* calls minus the number of End calls, negative when Ends outnumber Starts.
C8_StartsMinusEnds == InFlightIsStartsMinusEnds(InFlightCreated)

C8_Witness ==
  \E s \in AttrSetInputs :
     /\ InFlightCreated("rec1")
     /\ hist["rec1"].starts[s] = 0
     /\ hist["rec1"].ends[s] = 1
     /\ Val(data["rec1"]["httpRequestsInflight"], s) = -1

\* the fields whose aggregate an operation may change
Targets(op) ==
  CASE op = "HTTPRequestDuration" -> {"httpRequestDurHistogram"}
    [] op = "HTTPResponseSize" -> {"httpResponseSizeHistogram"}
    [] op \in {"InFlightRequestStart", "InFlightRequestEnd"} -> {"httpRequestsInflight"}
    [] op = "Impressions" -> {"impressions"}
    [] op = "Reasons" -> {"reasons"}
    [] op = "RecordEvaluation" -> {"impressions", "reasons"}
    [] OTHER -> {}

\* C9: a recording operation leaves the five handles of every recorder as
\* they are and changes the aggregate of the instruments it targets only.
C9_RecordingFrame ==
  [][last'.op # "NewOTelRecorder" =>
       /\ recorder' = recorder
       /\ provider' = provider
       /\ \A r \in Recorders, k \in InstrumentKeys :
            (r # last'.rec \/ k \notin Targets(last'.op)) => data'[r][k] = data[r][k]]_vars

C9_Witness ==
  /\ last.op = "HTTPResponseSize"
  /\ data["rec1"]["httpResponseSizeHistogram"] # << >>
  /\ data["rec1"]["httpRequestDurHistogram"] # << >>
  /\ data["rec1"]["reasons"] = << >>

\* the aggregates the backend reports under a scope: those of the instruments
\* created with that scope
ReportedUnder(scope) ==
  [p \in { q \in Recorders \X InstrumentKeys :
             Built(q[1]) /\ recorder[q[1]][q[2]].scope = scope } |->
     data[p[1]][p[2]]]

\* name + scope of the five instruments of a recorder
Identities(r) ==
  { << recorder[r][k].name, recorder[r][k].scope >> : k \in InstrumentKeys }

\* C6: two recorders built with different service names have ten distinct
\* instruments (identity = name + scope), and a recording operation on one of
\* them leaves every aggregate reported under the other's scope, and the
\* other recorder's aggregates, unchanged.
C6_ScopedInstruments ==
  /\ [](\A r1, r2 \in Recorders :
          (Built(r1) /\ Built(r2) /\ hist[r1].serviceName # hist[r2].serviceName) =>
             /\ Identities(r1) \cap Identities(r2) = {}
             /\ Cardinality(Identities(r1) \cup Identities(r2)) = 10)
  /\ [][last'.op # "NewOTelRecorder" =>
          \A r2 \in Recorders :
             (Built(r2) /\ hist[r2].serviceName # hist[last'.rec].serviceName) =>
                /\ data'[r2] = data[r2]
                /\ ReportedUnder(hist[r2].serviceName)' = ReportedUnder(hist[r2].serviceName)]_vars

C6_Witness ==
  /\ Built("rec1") /\ Built("rec2")
  /\ hist["rec1"].serviceName = "svcA" /\ hist["rec2"].serviceName = "svcB"
  /\ hist["rec1"].failed = {} /\ hist["rec2"].failed = {}
  /\ last.rec = "rec1"
  /\ data["rec1"]["impressions"] # << >>
  /\ data["rec2"]["impressions"] # << >>
  /\ DOMAIN ReportedUnder("svcB") = {"rec2"} \X InstrumentKeys

\* the field a one-step recording operation writes
TargetOf(op) == CHOOSE k \in InstrumentKeys : Targets(op) = {k}

\* C7: NewOTelRecorder returns a recorder for every combination of failing
\* creation calls; an instrument whose creation failed never holds data and a
\* recording operation on it changes nothing, while an operation on an
\* instrument whose creation succeeded records.
C7_CreationFailureIsSilent ==
  /\ [](\A r \in Recorders :
          /\ (~Built(r) /\ ncalls = 0) =>
               \A S \in ServiceNames, f \in SUBSET InstrumentKeys :
                  ENABLED NewOTelRecorder(r, S, f)
          /\ Built(r) =>
               /\ \A k \in hist[r].failed : data[r][k] = << >>
               /\ \A k \in InstrumentKeys :
                    /\ recorder[r][k].name = InstrumentName(k)
                    /\ recorder[r][k].ok = (k \notin hist[r].failed))
  /\ [][/\ last'.op = "NewOTelRecorder" => provider'[last'.rec].built
        /\ last'.op \in {"HTTPRequestDuration", "HTTPResponseSize", "InFlightRequestStart",
                         "InFlightRequestEnd", "Impressions", "Reasons"} =>
             LET r == last'.rec
                 k == TargetOf(last'.op)
             IN  /\ ncalls' = ncalls + 1
                 /\ (data'[r][k] = data[r][k]) = (k \in hist[r].failed)
        /\ \A c \in Callers :
             /\ (EvalEnters(c) /\ call'[c].err.isNil) =>
                  LET r == call'[c].rec
                  IN  (data'[r]["impressions"] = data[r]["impressions"])
                        = ("impressions" \in hist[r].failed)
             /\ EvalReturns(c) =>
                  LET r == call[c].rec
                  IN  (data'[r]["reasons"] = data[r]["reasons"])
                        = ("reasons" \in hist[r].failed)]_vars

C7_Witness ==
  /\ Built("rec1")
  /\ hist["rec1"].failed = {"httpRequestDurHistogram", "impressions"}
  /\ hist["rec1"].evalNil = 1
  /\ last.op = "HTTPRequestDuration"
  /\ data["rec1"]["httpRequestDurHistogram"] = << >>
  /\ data["rec1"]["impressions"] = << >>
  /\ data["rec1"]["reasons"] # << >>

\* RecordEvaluation calls with a nil error that have recorded their
\* impression and not yet their reason
InProgressNil(r) ==
  Cardinality({ c \in Callers : pc[c] = "Reasons" /\ call[c].rec = r /\ call[c].err.isNil })

Quiescent == \A c \in Callers : pc[c] = "idle"

\* totals of the two counters of a recorder used through RecordEvaluation
\* only; the parameters tell on which recorders each counter is covered
EvaluationTotals(impressionsCovered(_), reasonsCovered(_)) ==
  \A r \in Recorders :
     Built(r) =>
       /\ reasonsCovered(r) =>
            Total(data[r]["reasons"]) = hist[r].evalDone
       /\ impressionsCovered(r) =>
            Total(data[r]["impressions"]) = hist[r].evalNil + InProgressNil(r)
       /\ (Quiescent /\ impressionsCovered(r) /\ reasonsCovered(r)) =>
            /\ Total(data[r]["impressions"]) = hist[r].evalNil
            /\ Total(data[r]["impressions"]) <= Total(data[r]["reasons"])

NeverDecreases ==
  \A r \in Recorders :
     /\ Total(data'[r]["impressions"]) >= Total(data[r]["impressions"])
     /\ Total(data'[r]["reasons"]) >= Total(data[r]["reasons"])

ImpressionsCreated(r) == "impressions" \notin hist[r].failed
ReasonsCreated(r) == "reasons" \notin hist[r].failed

\* C10 as stated: on a recorder used through RecordEvaluation only, the
\* reasons total equals the number of completed calls and the impressions
\* total the number of them with a nil error, so impressions <= reasons once
\* the calls have completed; neither counter decreases; a call with a nil
\* error records its impression before its reason.
C10_EveryRecorder ==
  /\ [] EvaluationTotals(AnyRecorder, AnyRecorder)
  /\ [][NeverDecreases]_vars

\* C10 amended: the same, for the counters whose creation succeeded: the
\* reasons total equals the number of completed calls if the reasons counter
\* was created, the impressions total equals the number of nil-error calls
\* that are completed or between their impression and their reason if the
\* impressions counter was created, impressions <= reasons once all calls
\* have completed if both were created, and neither counter decreases.
C10_EvaluationTotals ==
  /\ [] EvaluationTotals(ImpressionsCreated, ReasonsCreated)
  /\ [][NeverDecreases]_vars

C10_Witness ==
  /\ Quiescent
  /\ hist["rec1"].failed = {}
  /\ hist["rec1"].evalDone = 2
  /\ hist["rec1"].evalNil = 1
  /\ Total(data["rec1"]["impressions"]) = 1
  /\ Total(data["rec1"]["reasons"]) = 2

====
